---- MODULE Spec2Model ----
(***************************************************************************)
(* Model of the batch engine and the incremental JSON writer of            *)
(* rosrook/object_localization (src/main.py, src/src/router.py,            *)
(* src/utils/gemini_client.py).                                            *)
(*                                                                         *)
(* The output file is a sequence of symbols.  Structural characters of     *)
(* JSON are one symbol each ("[", "]", ",", "{", "}", "nl", "sp"); the     *)
(* body of a dumped record is one symbol per field.  json.dump / json.load *)
(* are the operators DumpRecord / DumpArray / ParseArray, so that a file   *)
(* damaged by a truncation or a misplaced comma does not parse.            *)
(***************************************************************************)
EXTENDS Integers, Sequences, FiniteSets, TLC

\* ------------------------------------------------------------------ bounds
MaxRecords == 3      \* input records of a run (engine), appends of a writer trace
MaxBatch == 2        \* largest batch handed to the writer in a writer trace
MaxInterval == 2     \* largest --save-interval
MaxFaults == 1       \* tasks and I/O calls the environment makes fail in one run
MaxPhrases == 2      \* phrases of the vocabulary in one question text
MaxTextLen == 5      \* tokens of a model response whose parsing is followed
MaxGpus == 3         \* largest --num-gpus of a sharded submission
MaxTasks == 5        \* largest task list of a sharded submission
MaxWorkers == 2      \* largest --workers of a sharded submission
MaxPoolTasks == 3    \* tasks of one executor whose workers are followed step by step
PoolWorkers == 2     \* workers of that executor

\* --------------------------------------------------------- program constants
NumGpus == 2         \* --num-gpus of the GPU-sharded runs that are modelled
MinAppendSize == 2   \* "if file_size > 2" of _append_results

VARIABLES
    pc,            \* position of main(): "start", "running", "collected", "done", "aborted"
    records,       \* the raw input records of the JSON file
    saveInterval,  \* --save-interval
    useConcurrent, \* not --no-concurrent
    mode,          \* "thread", "process" (--multiprocessing), "gpu" (--num-gpus > 0 too)
    tasks,         \* route_results of process_json
    pending,       \* task indexes whose future was submitted and is not yet collected
    results,       \* the results list of process_json
    completed,     \* the completed counter of process_json
    calls,         \* log of ScoringPipeline.filter calls: <<task id, pipeline id>>
    swallowed,     \* number of writer exceptions caught by the collection loop
    oclog,         \* what the environment did to each processed task: <<task id, outcome>>
    faults,        \* failures the environment has injected so far
    fileExists,    \* output_path.exists()
    file,          \* content of the output file
    expect,        \* writer traces: records the file should hold (initial array ++ batches)
    nAppends,      \* writer traces: number of completed _append_results calls
    lastBatch,     \* the batch of the last _append_results call
    lastRaised,    \* the last _append_results call raised
    lastPath,      \* the branch the last _append_results call ended in
    initKind,      \* what the output path held before the first write
    metadata,      \* router calls: the metadata (or input item) the router is called with
    useLlm,        \* router calls: Router.use_llm
    response,      \* router calls: what the classifying model does if it is asked
    routed,        \* router calls: the call made and what it returned
    rawItem,       \* task calls: the routed item handed to _process_single_item
    modelText,     \* task calls: what the scoring model does when it is asked
    output,        \* task calls: the record _process_single_item returned
    numGpus,       \* sharding: self.num_gpus
    numTasks,      \* sharding: len(route_results)
    numWorkers,    \* sharding: self.max_workers, the processes of the pool
    gpuNext,       \* sharding: the gpu_id the submission loop is at
    submitted,     \* sharding: the futures submitted so far, <<task index, gpu_id>>
    queue,         \* sharding: the submitted futures no process has taken yet
    workerEnv,     \* sharding: per process, the CUDA_VISIBLE_DEVICES values it has set
    poolFn,        \* pool: the task function the executor runs
    todo,          \* pool: tasks no worker has started yet
    wk,            \* pool: per worker, its position in the task function
    counter,       \* pool: debug_image_counter of the shared GeminiClient
    names,         \* pool: the counter values the debug file names were built from
    doneQ,         \* pool: completed futures the collecting loop has not taken yet
    collector      \* pool: the collecting loop

vars == <<pc, records, saveInterval, useConcurrent, mode, tasks, pending, results,
          completed, calls, swallowed, oclog, faults, fileExists, file, expect, nAppends,
          lastBatch, lastRaised, lastPath, initKind, metadata, useLlm, response,
          routed, rawItem, modelText, output, numGpus, numTasks, numWorkers, gpuNext,
          submitted, queue, workerEnv, poolFn, todo, wk, counter, names, doneQ,
          collector>>

routerVars == <<metadata, useLlm, response, routed>>

taskVars == <<rawItem, modelText, output>>

Idle == "idle"

\* the variables of the router and task calls, in a run that makes none
NotRouted == [fn |-> "none", raised |-> FALSE, decision |-> <<>>, rows |-> <<>>,
              llmCalls |-> 0]

IdleRouter == metadata = Idle /\ useLlm = TRUE /\ response = Idle /\ routed = NotRouted

shardVars == <<numGpus, numTasks, numWorkers, gpuNext, submitted, queue, workerEnv>>

poolVars == <<poolFn, todo, wk, counter, names, doneQ, collector>>

IdleShard ==
    /\ numGpus = 0 /\ numTasks = 0 /\ numWorkers = 0 /\ gpuNext = 0
    /\ submitted = <<>> /\ queue = <<>> /\ workerEnv = <<>>

IdlePool ==
    /\ poolFn = Idle /\ todo = 0 /\ wk = <<>> /\ counter = 0 /\ names = <<>>
    /\ doneQ = 0 /\ collector = Idle

IdleTask == rawItem = Idle /\ modelText = Idle /\ output = [fn |-> "none", rec |-> [id |-> "none"]]

engineVars == <<pc, records, saveInterval, useConcurrent, mode, tasks, pending,
                results, completed, calls, swallowed, oclog, faults>>

\* ------------------------------------------------------------ output records
RecIds == <<"r1", "r2", "r3", "r4", "r5", "r6">>

NoError == "none"        \* the record has no "error" key
NoPipeline == "none"     \* the record has no "pipeline_type" key

PipelineTypes == {"question", "caption", "place_recognition", "text_association",
                  "object_proportion", "object_position", "object_absence",
                  "object_orientation", "object_counting"}

ErrNoPipeline == "No pipeline recognized"
ErrInvalid == "Invalid pipeline type"
ErrNotFound == "Pipeline not found"
ErrUnexpected == "Unexpected error"
ErrLoop == "str(e)"

OutRecord(id, error, pipeline, passed) ==
    [id |-> id, error |-> error, pipeline |-> pipeline, passed |-> passed]

\* ------------------------------------------------------------- json.dump/load
BoolStr(b) == IF b THEN "true" ELSE "false"

IsWs(c) == c \in {"nl", "sp"}

\* json.dump(result, f, indent=2) of one record
DumpRecord(r) == <<"{", r.id, r.error, r.pipeline, BoolStr(r.passed), "}">>

RecordLen == 6

RECURSIVE JoinRecords(_, _)
\* the records of rs, each preceded by pre and separated by <<",", "nl">>
JoinRecords(rs, pre) ==
    IF Len(rs) = 0 THEN <<>>
    ELSE IF Len(rs) = 1 THEN pre \o DumpRecord(rs[1])
    ELSE pre \o DumpRecord(rs[1]) \o <<",", "nl">> \o JoinRecords(Tail(rs), pre)

\* json.dump(list, f, indent=2)
DumpArray(rs) ==
    IF Len(rs) = 0 THEN <<"[", "]">>
    ELSE <<"[", "nl">> \o JoinRecords(rs, <<"sp">>) \o <<"nl", "]">>

IsRecordAt(f, i) ==
    /\ i + RecordLen - 1 <= Len(f)
    /\ f[i] = "{"
    /\ f[i + 5] = "}"
    /\ \A k \in 1..4 : f[i + k] \notin {"[", "]", ",", "{", "}", "nl", "sp"}
    /\ f[i + 4] \in {"true", "false"}

RecordAt(f, i) == OutRecord(f[i + 1], f[i + 2], f[i + 3], f[i + 4] = "true")

ParseFail == [ok |-> FALSE, items |-> <<>>]

RECURSIVE ParseFrom(_, _, _, _)
\* json.load restricted to arrays of records; st is the parser's position in
\* the grammar  ws '[' ws ( ']' | record ( ws ',' ws record )* ws ']' ) ws
ParseFrom(f, i, st, acc) ==
    IF i > Len(f) THEN [ok |-> st = "end", items |-> IF st = "end" THEN acc ELSE <<>>]
    ELSE IF IsWs(f[i]) THEN ParseFrom(f, i + 1, st, acc)
    ELSE IF st = "start" THEN
        IF f[i] = "[" THEN ParseFrom(f, i + 1, "first", acc) ELSE ParseFail
    ELSE IF st = "first" THEN
        IF f[i] = "]" THEN ParseFrom(f, i + 1, "end", acc)
        ELSE IF IsRecordAt(f, i)
             THEN ParseFrom(f, i + RecordLen, "after", Append(acc, RecordAt(f, i)))
             ELSE ParseFail
    ELSE IF st = "value" THEN
        IF IsRecordAt(f, i)
        THEN ParseFrom(f, i + RecordLen, "after", Append(acc, RecordAt(f, i)))
        ELSE ParseFail
    ELSE IF st = "after" THEN
        IF f[i] = "," THEN ParseFrom(f, i + 1, "value", acc)
        ELSE IF f[i] = "]" THEN ParseFrom(f, i + 1, "end", acc)
        ELSE ParseFail
    ELSE ParseFail

ParseArray(f) == ParseFrom(f, 1, "start", <<>>)

\* --------------------------------------------------------- _append_results
\* io is the I/O environment of one call: "none" (every open succeeds),
\* "first" (the first open() of the call raises OSError, later ones succeed),
\* "all" (every open() raises OSError), "mid" (the opens succeed and the first
\* write() of the call raises OSError; in the in-place path that is the write
\* of the separator, after the truncation).
IoFaults == {"none", "first", "all", "mid"}

\* 1-based index of the last "]" that the backward scan of lines 738-745 can
\* see: it reads f[Len(f)] down to f[2] and never the first character; 0 if
\* there is none (the code then seeks to -1, which raises ValueError).
LastBracket(f) ==
    LET S == {k \in 2..Len(f) : f[k] = "]"}
    IN IF S = {} THEN 0 ELSE CHOOSE k \in S : \A j \in S : j <= k

\* lines 716-726: the file does not exist
WriteFresh(batch) ==
    <<"[", "nl">> \o JoinRecords(batch, <<>>) \o <<"nl", "]">>

\* lines 731-768: the file exists and no call raised
WriteInPlace(f, batch) ==
    IF Len(f) > MinAppendSize
    THEN \* seek to the "]", seek one further back, truncate, write ',\n'
         SubSeq(f, 1, LastBracket(f) - 2) \o <<",", "nl">>
             \o JoinRecords(batch, <<>>) \o <<"nl", "]">>
    ELSE \* seek(0), write '[\n', the items, '\n]'
         <<"[", "nl">> \o JoinRecords(batch, <<>>) \o <<"nl", "]">>

\* lines 769-781: read-parse-extend-rewrite
WriteFallback(f, batch) ==
    LET p == ParseArray(f)
        existing == IF p.ok THEN p.items ELSE <<>>
    IN DumpArray(existing \o batch)

\* the in-place path raises: the open fails, no "]" is found, or a write fails
InPlaceRaises(f, io) ==
    \/ io \in {"first", "all", "mid"}
    \/ Len(f) > MinAppendSize /\ LastBracket(f) = 0

\* the file the except branch of line 769 finds: the in-place path has
\* truncated it (line 749) when the failure came after the truncation
AfterInPlaceFailure(f, io) ==
    IF io = "mid" /\ Len(f) > MinAppendSize /\ LastBracket(f) # 0
    THEN SubSeq(f, 1, LastBracket(f) - 2)
    ELSE f

\* _append_results(results, output_path): the state of the file after the
\* call and whether the call raised
AppendResults(ex, f, batch, io) ==
    IF ~ex
    THEN IF io = "none"
         THEN [exists |-> TRUE, file |-> WriteFresh(batch), raised |-> FALSE,
               path |-> "fresh"]
         ELSE IF io = "mid"
         THEN \* open(..., 'w') has created the file
              [exists |-> TRUE, file |-> <<>>, raised |-> TRUE, path |-> "fresh"]
         ELSE [exists |-> FALSE, file |-> f, raised |-> TRUE, path |-> "fresh"]
    ELSE IF ~InPlaceRaises(f, io)
         THEN [exists |-> TRUE, file |-> WriteInPlace(f, batch), raised |-> FALSE,
               path |-> "inplace"]
         ELSE IF io = "all"
              THEN [exists |-> TRUE, file |-> f, raised |-> TRUE, path |-> "fallback"]
              ELSE [exists |-> TRUE,
                    file |-> WriteFallback(AfterInPlaceFailure(f, io), batch),
                    raised |-> FALSE, path |-> "fallback"]

\* ------------------------------------------------ the output path at startup
SampleA == OutRecord("r5", NoError, "caption", TRUE)

\* "absent": no file.  "compact": json.dumps([a]) without indent.  "pretty":
\* json.dump([a], indent=2), what save_results writes.  "empty": json.dump([]).
\* "trailing": a compact array followed by a newline.  "garbage": not JSON.
InitKinds == {"absent", "compact", "pretty", "empty", "trailing", "garbage"}

WellFormedKinds == {"compact", "pretty", "empty", "trailing"}

InitContent(kind) ==
    CASE kind = "absent" -> <<>>
      [] kind = "compact" -> <<"[">> \o DumpRecord(SampleA) \o <<"]">>
      [] kind = "pretty" -> DumpArray(<<SampleA>>)
      [] kind = "empty" -> DumpArray(<<>>)
      [] kind = "trailing" -> <<"[">> \o DumpRecord(SampleA) \o <<"]", "nl">>
      [] kind = "garbage" -> <<"{", "sp", "sp">>

InitFile(kind) ==
    /\ initKind = kind
    /\ fileExists = (kind # "absent")
    /\ file = InitContent(kind)
    /\ expect = ParseArray(InitContent(kind)).items
    /\ nAppends = 0
    /\ lastBatch = <<>>
    /\ lastRaised = FALSE
    /\ lastPath = "none"

\* -------------------------------------------------------------------- Router
\* A question is modelled by what the keyword stage makes of it.
\*   "missing":   source_b has no question
\*   "malformed": the question is not a string (a number, a list)
\*   "nomatch":   no keyword or pattern matches
\*   "one":       one pipeline has the highest score ("How many dogs ...")
\*   "tie":       two pipelines share the highest score
QKinds == {"missing", "malformed", "nomatch", "one", "tie"}

\* _match_by_keywords
MatchByKeywords(q) ==
    CASE q = "one" -> <<"object_counting">>
      [] q = "tie" -> <<"place_recognition", "object_position">>
      [] OTHER -> <<>>

\* what _match_by_llm can return: nothing, or the one accepted pipeline
LlmAnswers == {<<>>, <<"object_position">>}

UseLlm == TRUE

\* _match_pipeline_by_question, for a question that is a string
MatchPipelineByQuestion(q, llm) ==
    LET keyword_matches == MatchByKeywords(q)
    IN IF Len(keyword_matches) = 1 THEN keyword_matches
       ELSE IF UseLlm /\ Len(llm) > 0 THEN llm
       ELSE keyword_matches

RECURSIVE RouteFromJson(_, _, _)
\* Router.route_from_json: the loop over the items of the input file, from
\* item i on.  A record without a question is skipped; a question that is not
\* a string makes question.strip() raise AttributeError.
RouteFromJson(data, llm, i) ==
    IF i > Len(data) THEN [raised |-> FALSE, items |-> <<>>]
    ELSE LET rest == RouteFromJson(data, llm, i + 1)
         IN IF data[i].q = "missing" THEN rest
            ELSE IF data[i].q = "malformed" THEN [raised |-> TRUE, items |-> <<>>]
            ELSE IF rest.raised THEN rest
            ELSE [raised |-> FALSE,
                  items |-> <<[id |-> data[i].id,
                               pipeline_types |-> MatchPipelineByQuestion(data[i].q, llm[i])]>>
                            \o rest.items]

\* --------------------------------------------------------------- per-task
\* What the environment does to one task.
\*   "pass":       the model answers with a verdict
\*   "modelfail":  analyze_image raises
\*   "badjson":    the answer holds no JSON (json.loads raises ValueError)
\*   "ctorfail":   GeminiClient() raises in the worker process
\*   "futurefail": future.result() raises (the worker process died)
ThreadOutcomes == {"pass", "modelfail", "badjson"}

ProcessOutcomes == ThreadOutcomes \cup {"ctorfail", "futurefail"}

\* 1 if the environment made something fail, else 0
Cost(x) == IF x \in {"pass", "none"} THEN 0 ELSE 1

\* GeminiClient.filter_image: both except branches return a failed verdict
FilterImage(oc) == [passed |-> (oc = "pass"), raised |-> FALSE]

\* a variant that scores every matched id instead of the first one
ProcessSingleItemAllRoutes(item, oc, worker, multi) ==
    LET routes == item.pipeline_types
        errRec(e) == OutRecord(item.id, e, NoPipeline, FALSE)
    IN IF (oc = "ctorfail" /\ (worker \/ multi))
       THEN [rec |-> errRec(ErrUnexpected), called |-> <<>>]
       ELSE IF Len(routes) = 0
       THEN [rec |-> errRec(ErrNoPipeline), called |-> <<>>]
       ELSE [rec |-> OutRecord(item.id, NoError, routes[1], FilterImage(oc).passed),
             called |-> routes]

\* ImageFilterSystem._process_single_item (worker = FALSE) and
\* _process_single_item_worker (worker = TRUE); multi is use_multiprocessing.
\* The result is the returned record and the pipeline ids filter was called for.
ProcessSingleItem(item, oc, worker, multi) ==
    LET routes == item.pipeline_types
        errRec(e) == OutRecord(item.id, e, NoPipeline, FALSE)
    IN IF worker /\ oc = "ctorfail"
       THEN [rec |-> errRec(ErrUnexpected), called |-> <<>>]
       ELSE IF Len(routes) = 0
       THEN [rec |-> errRec(ErrNoPipeline), called |-> <<>>]
       ELSE LET pipeline_type == routes[1]
            IN IF pipeline_type \notin PipelineTypes
               THEN [rec |-> errRec(ErrInvalid), called |-> <<>>]
               ELSE IF ~worker /\ multi /\ oc = "ctorfail"
               THEN [rec |-> errRec(ErrUnexpected), called |-> <<>>]
               ELSE LET filter_result == FilterImage(oc)
                    IN IF filter_result.raised
                       THEN [rec |-> OutRecord(item.id, ErrLoop, pipeline_type, FALSE),
                             called |-> <<pipeline_type>>]
                       ELSE [rec |-> OutRecord(item.id, NoError, pipeline_type,
                                               filter_result.passed),
                             called |-> <<pipeline_type>>]

RECURSIVE Tag(_, _)
Tag(id, pids) ==
    IF Len(pids) = 0 THEN <<>> ELSE <<<<id, pids[1]>>>> \o Tag(id, Tail(pids))

\* results[-n:]
LastN(s, n) == IF Len(s) <= n THEN s ELSE SubSeq(s, Len(s) - n + 1, Len(s))

\* ------------------------------------------------------------ process_json
Modes == {"thread", "process", "gpu"}

Outcomes(m) == IF m = "thread" THEN ThreadOutcomes ELSE ProcessOutcomes

\* the rank of a question kind: the input records are listed by rank, the
\* order in which their tasks complete is left to the scheduler
Rank(q) ==
    CASE q = "one" -> 1 [] q = "tie" -> 2 [] q = "nomatch" -> 3
      [] q = "missing" -> 4 [] q = "malformed" -> 5

Ranked(qs, n) == \A i \in 1..(n - 1) : Rank(qs[i]) <= Rank(qs[i + 1])

\* "if not use_concurrent or total == 1" chooses the serial loop
Concurrent == useConcurrent /\ Len(tasks) # 1

RECURSIVE Range(_, _)
Range(a, b) == IF a > b THEN <<>> ELSE <<a>> \o Range(a + 1, b)

RECURSIVE ShardsFrom(_, _)
\* lines 639-654: the tasks of GPU gpu_id, gpu_id + 1, ..., in submission order
ShardsFrom(gpu_id, total) ==
    IF gpu_id >= NumGpus THEN <<>>
    ELSE LET tasks_per_gpu == total \div NumGpus
             start_idx == gpu_id * tasks_per_gpu
             end_idx == IF gpu_id = NumGpus - 1 THEN total
                        ELSE (gpu_id + 1) * tasks_per_gpu
         IN Range(start_idx + 1, end_idx) \o ShardsFrom(gpu_id + 1, total)

\* the futures of future_to_item, as indexes into route_results
Submit(m, total) == IF m = "gpu" THEN ShardsFrom(0, total) ELSE Range(1, total)

RemoveAt(s, k) == SubSeq(s, 1, k - 1) \o SubSeq(s, k + 1, Len(s))

ExcRecord(item) == OutRecord(item.id, ErrLoop, NoPipeline, FALSE)

Init ==
    /\ pc = "start"
    /\ \E n \in 1..MaxRecords : \E qs \in {f \in [1..n -> QKinds] : Ranked(f, n)} :
          records = [i \in 1..n |-> [id |-> RecIds[i], q |-> qs[i]]]
    /\ saveInterval \in 0..MaxInterval
    /\ useConcurrent \in BOOLEAN
    /\ mode \in Modes
    /\ tasks = <<>>
    /\ pending = <<>>
    /\ results = <<>>
    /\ completed = 0
    /\ calls = <<>>
    /\ swallowed = 0
    /\ oclog = {}
    /\ faults = 0
    /\ \E kind \in {"absent", "compact", "pretty"} : InitFile(kind)
    /\ IdleShard
    /\ IdlePool
    /\ IdleRouter
    /\ IdleTask

writerVars == <<fileExists, file, expect, nAppends, lastBatch, lastRaised, lastPath>>

\* process_json up to the collection loop: route_from_json (line 599), the
\* choice of the serial or concurrent loop, the submission of the futures
ProcessJsonStart ==
    /\ pc = "start"
    /\ \E llm \in [1..Len(records) -> LlmAnswers] :
          LET r == RouteFromJson(records, llm, 1)
          IN IF r.raised
             THEN /\ pc' = "aborted"
                  /\ UNCHANGED <<tasks, pending>>
             ELSE /\ pc' = "running"
                  /\ tasks' = r.items
                  /\ pending' = IF useConcurrent /\ Len(r.items) # 1
                                THEN Submit(mode, Len(r.items))
                                ELSE Range(1, Len(r.items))
    /\ UNCHANGED <<records, saveInterval, useConcurrent, mode, results, completed,
                   calls, swallowed, oclog, faults, initKind>>
    /\ UNCHANGED writerVars
    /\ UNCHANGED <<routerVars, taskVars, shardVars, poolVars>>

\* one iteration of the serial loop, lines 607-624
SerialStep ==
    /\ pc = "running"
    /\ ~Concurrent
    /\ Len(pending) > 0
    /\ \E oc \in Outcomes(mode) \ {"futurefail"} :
          LET item == tasks[Head(pending)]
              out == ProcessSingleItem(item, oc, FALSE, mode # "thread")
          IN /\ results' = Append(results, out.rec)
             /\ calls' = calls \o Tag(item.id, out.called)
             /\ oclog' = oclog \cup {<<item.id, oc>>}
             /\ faults + Cost(oc) <= MaxFaults
             /\ faults' = faults + Cost(oc)
    /\ pending' = Tail(pending)
    /\ completed' = completed + 1
    /\ UNCHANGED <<pc, records, saveInterval, useConcurrent, mode, tasks, swallowed,
                   initKind>>
    /\ UNCHANGED writerVars
    /\ UNCHANGED <<routerVars, taskVars, shardVars, poolVars>>

\* one iteration of "for future in as_completed(future_to_item)", lines 669-701:
\* the k-th outstanding future completes with outcome oc; io is the I/O
\* environment of the checkpoint write, if this iteration makes one
CollectFuture ==
    /\ pc = "running"
    /\ Concurrent
    /\ \E k \in 1..Len(pending) : \E oc \in Outcomes(mode) : \E io \in IoFaults :
          LET item == tasks[pending[k]]
              out == ProcessSingleItem(item, oc, mode # "thread", mode # "thread")
              done == completed + 1
              r1 == Append(results, out.rec)
              checkpoint == saveInterval > 0 /\ done % saveInterval = 0
              batch == LastN(r1, saveInterval)
              w == AppendResults(fileExists, file, batch, io)
          IN /\ pending' = RemoveAt(pending, k)
             /\ faults + Cost(oc) + Cost(io) <= MaxFaults
             /\ faults' = faults + Cost(oc) + Cost(io)
             /\ completed' = done
             /\ oclog' = oclog \cup {<<item.id, oc>>}
             /\ IF oc = "futurefail"
                THEN \* future.result() raises: the except branch of line 688
                     /\ io = "none"
                     /\ results' = Append(results, ExcRecord(item))
                     /\ UNCHANGED <<calls, swallowed>>
                     /\ UNCHANGED writerVars
                ELSE /\ calls' = calls \o Tag(item.id, out.called)
                     /\ IF checkpoint
                        THEN /\ fileExists' = w.exists
                             /\ file' = w.file
                             /\ lastBatch' = batch
                             /\ lastRaised' = w.raised
                             /\ lastPath' = w.path
                             /\ nAppends' = IF w.raised THEN nAppends ELSE nAppends + 1
                             /\ expect' = IF w.raised THEN expect ELSE expect \o batch
                             \* _append_results raised inside the try block:
                             \* the same except branch appends a second record
                             /\ results' = IF w.raised THEN Append(r1, ExcRecord(item))
                                           ELSE r1
                             /\ swallowed' = IF w.raised THEN swallowed + 1 ELSE swallowed
                        ELSE /\ io = "none"
                             /\ results' = r1
                             /\ UNCHANGED swallowed
                             /\ UNCHANGED writerVars
    /\ UNCHANGED <<pc, records, saveInterval, useConcurrent, mode, tasks, initKind>>
    /\ UNCHANGED <<routerVars, taskVars, shardVars, poolVars>>

\* save_results: the whole list, rewritten
SaveResults(rs) == DumpArray(rs)

\* process_json returns and main() finishes, lines 903-908
MainFinish ==
    /\ pc = "running"
    /\ Len(pending) = 0
    /\ pc' = "done"
    /\ IF saveInterval > 0 /\ fileExists
       THEN UNCHANGED <<fileExists, file>>
       ELSE /\ fileExists' = TRUE
            /\ file' = SaveResults(results)
    /\ UNCHANGED <<records, saveInterval, useConcurrent, mode, tasks, pending, results,
                   completed, calls, swallowed, oclog, faults, initKind>>
    /\ UNCHANGED <<expect, nAppends, lastBatch, lastRaised, lastPath>>
    /\ UNCHANGED <<routerVars, taskVars, shardVars, poolVars>>

Next ==
    \/ ProcessJsonStart
    \/ SerialStep
    \/ CollectFuture
    \/ MainFinish

Spec == Init /\ [][Next]_vars

\* ------------------------------------------------------- writer traces
\* The writer on its own: any sequence of _append_results calls, with any
\* batches, on a path that starts absent or holds one of the initial contents.
SampleB == OutRecord("r1", NoError, "object_counting", TRUE)

SampleC == OutRecord("r2", ErrNoPipeline, NoPipeline, FALSE)

Batches == {<<>>} \cup {b \in UNION {[1..n -> {SampleB, SampleC}] : n \in 1..MaxBatch} : TRUE}

InitWriter ==
    /\ pc = "writer"
    /\ records = <<>>
    /\ saveInterval = 0
    /\ useConcurrent = FALSE
    /\ mode = "thread"
    /\ tasks = <<>>
    /\ pending = <<>>
    /\ results = <<>>
    /\ completed = 0
    /\ calls = <<>>
    /\ swallowed = 0
    /\ oclog = {}
    /\ faults = 0
    /\ \E kind \in InitKinds : InitFile(kind)
    /\ IdleShard
    /\ IdlePool
    /\ IdleRouter
    /\ IdleTask

\* one call of _append_results(batch, output_path)
WriterAppend ==
    /\ pc = "writer"
    /\ nAppends < MaxRecords
    /\ \E batch \in Batches : \E io \in IoFaults :
          LET w == AppendResults(fileExists, file, batch, io)
          IN /\ fileExists' = w.exists
             /\ file' = w.file
             /\ lastBatch' = batch
             /\ lastRaised' = w.raised
             /\ lastPath' = w.path
             /\ nAppends' = IF w.raised THEN nAppends ELSE nAppends + 1
             /\ expect' = IF w.raised THEN expect ELSE expect \o batch
    /\ UNCHANGED engineVars
    /\ UNCHANGED initKind
    /\ UNCHANGED <<routerVars, taskVars, shardVars, poolVars>>

NextWriter == WriterAppend

SpecWriter == InitWriter /\ [][NextWriter]_vars

\* ------------------------------------------------------- router, in detail
\* The keys of Router.pipeline_keywords, in the order of the dict.
PipelineOrder == <<"question", "caption", "place_recognition", "text_association",
                   "object_proportion", "object_position", "object_absence",
                   "object_orientation", "object_counting">>

KeywordWeight == 1     \* "score += 1" for a keyword found in the question
PatternWeight == 2     \* "score += 2" for a pattern found in the question
LlmThreshold == 60     \* "confidence >= 0.6", in hundredths
LlmDefaultConfidence == 50   \* result.get("confidence", 0.5), in hundredths

\* A question text is modelled as the set of these phrases it holds (the
\* phrases joined by blanks); the empty set is the empty string.
Phrases == {"how many", "where", "location of", "the place", "describe", "xyz"}

\* What pipeline_keywords finds in one phrase: <<pipeline, keywords, patterns>>.
\*   "how many":    keyword "how many" and pattern how\s+many of object_counting
\*   "where":       keyword "where" of object_position
\*   "location of": keyword "location of" of object_position and keyword
\*                  "location" of place_recognition
\*   "the place":   keyword "place" of place_recognition
\*   "describe":    keyword "describe" of caption
PhraseHits(phrase) ==
    CASE phrase = "how many" -> {<<"object_counting", 1, 1>>}
      [] phrase = "where" -> {<<"object_position", 1, 0>>}
      [] phrase = "location of" -> {<<"place_recognition", 1, 0>>,
                                    <<"object_position", 1, 0>>}
      [] phrase = "the place" -> {<<"place_recognition", 1, 0>>}
      [] phrase = "describe" -> {<<"caption", 1, 0>>}
      [] OTHER -> {}

RECURSIVE SumOver(_, _, _)
\* the sum of the points the hits of a set give a pipeline
SumOver(hits, p, acc) ==
    IF hits = {} THEN acc
    ELSE LET h == CHOOSE x \in hits : TRUE
         IN SumOver(hits \ {h}, p,
                    IF h[1] = p THEN acc + h[2] * KeywordWeight + h[3] * PatternWeight
                    ELSE acc)

\* the score of one pipeline in the loop of _match_by_keywords
Score(p, phrases) == SumOver(UNION {PhraseHits(ph) : ph \in phrases}, p, 0)

MaxScore(phrases) ==
    LET all == {Score(PipelineOrder[k], phrases) : k \in 1..Len(PipelineOrder)}
    IN CHOOSE m \in all : \A x \in all : x <= m

IsTop(p, phrases) == Score(p, phrases) > 0 /\ Score(p, phrases) = MaxScore(phrases)

\* the first pipeline of the dict among those with the highest non-zero score
IsTopFirstOnly(p, phrases) ==
    /\ Score(p, phrases) > 0
    /\ Score(p, phrases) = MaxScore(phrases)
    /\ \A k \in 1..Len(PipelineOrder) :
          (PipelineOrder[k] # p /\ Score(PipelineOrder[k], phrases) = MaxScore(phrases))
              => \E j \in 1..k : PipelineOrder[j] = p

\* a variant of _match_by_keywords that breaks a tie by the first pipeline
KeywordMatchesFirst(phrases) ==
    SelectSeq(PipelineOrder, LAMBDA p : IsTopFirstOnly(p, phrases))

\* Router._match_by_keywords: every pipeline with the highest non-zero score,
\* in the order of the dict
KeywordMatches(phrases) == SelectSeq(PipelineOrder, LAMBDA p : IsTop(p, phrases))

\* ---- values of a "question" field
\* kind "absent": the key is not there; "null": None; "number": a value that
\* is not a string and is truthy (42); "text": a string, the set of its phrases
QValue(kind, phrases) == [kind |-> kind, phrases |-> phrases]

Absent == QValue("absent", {})

Null == QValue("null", {})

Texts == {S \in SUBSET Phrases : Cardinality(S) <= MaxPhrases}

QValues == {Null, QValue("number", {})} \cup {QValue("text", S) : S \in Texts}

QSlots == {Absent} \cup QValues

\* "if question:" and "if not question:"
Truthy(q) == q.kind = "number" \/ (q.kind = "text" /\ q.phrases # {})

\* dict.get("question")
GetQuestion(slot) == IF slot.kind = "absent" THEN Null ELSE slot

\* ---- what the classifying model does when _match_by_llm asks it
\*   "raise":   analyze_image raises
\*   "nojson":  the answer holds no {...}
\*   "badjson": json.loads raises on the {...} found
\*   "object":  a JSON object; pipeline_type is an id, "unknown" or "missing",
\*              confKind says whether "confidence" is missing, a text or a
\*              number (conf, in hundredths)
LlmResponse(kind, pt, ck, c) ==
    [kind |-> kind, pipeline_type |-> pt, confKind |-> ck, conf |-> c]

LlmConfidences == {30, 59, 60, 90}

LlmResponses ==
    {LlmResponse(k, "missing", "missing", 0) : k \in {"raise", "nojson", "badjson"}}
    \cup {LlmResponse("object", pt, ck, 0) :
             pt \in {"missing", "unknown", "object_counting", "object_position"},
             ck \in {"missing", "text"}}
    \cup {LlmResponse("object", pt, "number", c) :
             pt \in {"missing", "unknown", "object_counting", "object_position"},
             c \in LlmConfidences}

\* a variant of _match_by_llm without the confidence threshold
LlmMatchesNoThreshold(resp) ==
    IF resp.kind = "object" /\ resp.pipeline_type \in PipelineTypes
       /\ resp.confKind # "text"
    THEN <<resp.pipeline_type>>
    ELSE <<>>

\* Router._match_by_llm, after its one analyze_image call
LlmMatches(resp) ==
    IF resp.kind # "object" THEN <<>>
    ELSE LET confidence == IF resp.confKind = "missing" THEN LlmDefaultConfidence
                           ELSE resp.conf
         IN IF resp.pipeline_type \notin PipelineTypes THEN <<>>   \* ValueError
            ELSE IF resp.confKind = "text" THEN <<>>                \* TypeError
            ELSE IF confidence >= LlmThreshold THEN <<resp.pipeline_type>>
            ELSE <<>>

Answer(raised, decision, llmCalls) ==
    [raised |-> raised, decision |-> decision, llmCalls |-> llmCalls]

\* a variant of _match_pipeline_by_question that asks the model first
MatchQuestionLlmFirst(question, use_llm, resp) ==
    IF ~Truthy(question) THEN Answer(FALSE, <<>>, 0)
    ELSE IF question.kind # "text" THEN Answer(TRUE, <<>>, 0)
    ELSE LET keyword_matches == KeywordMatches(question.phrases)
         IN IF use_llm /\ Len(LlmMatches(resp)) > 0
            THEN Answer(FALSE, LlmMatches(resp), 1)
            ELSE Answer(FALSE, keyword_matches, IF use_llm THEN 1 ELSE 0)

\* Router._match_pipeline_by_question
MatchQuestion(question, use_llm, resp) ==
    IF ~Truthy(question) THEN Answer(FALSE, <<>>, 0)
    ELSE IF question.kind # "text" THEN Answer(TRUE, <<>>, 0)   \* question.strip()
    ELSE LET keyword_matches == KeywordMatches(question.phrases)
         IN IF Len(keyword_matches) = 1 THEN Answer(FALSE, keyword_matches, 0)
            ELSE IF use_llm /\ Len(LlmMatches(resp)) > 0
            THEN Answer(FALSE, LlmMatches(resp), 1)
            ELSE Answer(FALSE, keyword_matches, IF use_llm THEN 1 ELSE 0)

\* ---- the metadata of route, and the item of route_from_json
\* source_b: kind "absent", "null", "text" (a string, not a mapping) or "map"
SourceB(kind, question) == [kind |-> kind, question |-> question]

SourceBs == {SourceB(k, Absent) : k \in {"absent", "null", "text"}}
            \cup {SourceB("map", q) : q \in QSlots}

\* given = FALSE is metadata = None
Metadata(given, question, source_b) ==
    [given |-> given, question |-> question, source_b |-> source_b]

NoMetadata == Metadata(FALSE, Absent, SourceB("absent", Absent))

Metadatas == {NoMetadata} \cup {Metadata(TRUE, q, sb) : q \in QSlots, sb \in SourceBs}

\* "if metadata:" is false for None and for the empty dict
MetadataTruthy(md) ==
    md.given /\ (md.question.kind # "absent" \/ md.source_b.kind # "absent")

\* the question route reads, lines 543-550
RouteQuestion(md) ==
    IF ~MetadataTruthy(md) THEN Null
    ELSE IF md.question.kind # "absent" THEN md.question
    ELSE IF md.source_b.kind = "map" THEN GetQuestion(md.source_b.question)
    ELSE Null

\* Router.route
Route(md, use_llm, resp) ==
    LET question == RouteQuestion(md)
    IN IF Truthy(question) THEN MatchQuestion(question, use_llm, resp)
       ELSE Answer(FALSE, <<>>, 0)

\* One iteration of the loop of Router.route_from_json on an item with an
\* image: rows is the rows appended for the item (none when it is skipped).
RouteItem(source_b, use_llm, resp) ==
    IF source_b.kind \in {"absent", "null"}
    THEN [raised |-> FALSE, rows |-> <<>>, llmCalls |-> 0]
    ELSE IF source_b.kind # "map"                       \* source_b.get
    THEN [raised |-> TRUE, rows |-> <<>>, llmCalls |-> 0]
    ELSE LET question == GetQuestion(source_b.question)
         IN IF ~Truthy(question)
            THEN [raised |-> FALSE, rows |-> <<>>, llmCalls |-> 0]
            ELSE LET m == MatchQuestion(question, use_llm, resp)
                 IN [raised |-> m.raised,
                     rows |-> IF m.raised THEN <<>> ELSE <<m.decision>>,
                     llmCalls |-> m.llmCalls]

\* ---- router calls: one call of one of the three entry points
InitRouter ==
    /\ pc = "router"
    /\ records = <<>>
    /\ saveInterval = 0
    /\ useConcurrent = FALSE
    /\ mode = "thread"
    /\ tasks = <<>>
    /\ pending = <<>>
    /\ results = <<>>
    /\ completed = 0
    /\ calls = <<>>
    /\ swallowed = 0
    /\ oclog = {}
    /\ faults = 0
    /\ InitFile("absent")
    /\ IdleShard
    /\ IdlePool
    /\ metadata \in Metadatas
    /\ useLlm \in BOOLEAN
    /\ response \in LlmResponses
    /\ routed = NotRouted
    /\ IdleTask

RouterDone(fn, r) ==
    /\ pc' = "routed"
    /\ routed' = [fn |-> fn, raised |-> r.raised, decision |-> r.decision,
                  rows |-> r.rows, llmCalls |-> r.llmCalls]
    /\ UNCHANGED <<metadata, useLlm, response>>
    /\ UNCHANGED <<records, saveInterval, useConcurrent, mode, tasks, pending, results,
                   completed, calls, swallowed, oclog, faults, initKind>>
    /\ UNCHANGED writerVars
    /\ UNCHANGED <<taskVars, shardVars, poolVars>>

\* router.route(image_input, metadata)
RouteCall ==
    /\ pc = "router"
    /\ LET r == Route(metadata, useLlm, response)
       IN RouterDone("route", [raised |-> r.raised, decision |-> r.decision,
                               rows |-> <<>>, llmCalls |-> r.llmCalls])

\* router._match_pipeline_by_question(metadata.get("question"))
MatchCall ==
    /\ pc = "router"
    /\ metadata.given
    /\ LET r == MatchQuestion(GetQuestion(metadata.question), useLlm, response)
       IN RouterDone("match", [raised |-> r.raised, decision |-> r.decision,
                               rows |-> <<>>, llmCalls |-> r.llmCalls])

\* Router.route_from_json on a file of the one item {source_a: {image}, source_b}
RouteFromJsonCall ==
    /\ pc = "router"
    /\ metadata.given
    /\ LET r == RouteItem(metadata.source_b, useLlm, response)
       IN RouterDone("route_from_json", [raised |-> r.raised, decision |-> <<>>,
                                         rows |-> r.rows, llmCalls |-> r.llmCalls])

NextRouter ==
    \/ RouteCall
    \/ MatchCall
    \/ RouteFromJsonCall

SpecRouter == InitRouter /\ [][NextRouter]_vars

\* ------------------------------------------- records and verdicts, in detail
\* A dict is a function from its keys; a nested dict (source_a, source_b) is
\* the set of its <<key, value>> pairs.  Scores and confidences are in
\* hundredths.
Payload == "IMG"       \* the raw image payload of the input record

\* {**a, **b}
Merge(a, b) == [k \in DOMAIN a \cup DOMAIN b |-> IF k \in DOMAIN b THEN b[k] ELSE a[k]]

\* {k: v for k, v in d.items() if k not in keys}, and d.pop(key, None)
Without(d, keys) == [k \in DOMAIN d \ keys |-> d[k]]

\* ---- what the scoring model does when filter_image asks it
\*   "raise":  analyze_image raises
\*   "empty":  the answer is empty (ValueError of _extract_json_from_response)
\*   "nojson": the answer holds no parseable object (JSONDecodeError)
\*   "scalar": the answer is JSON that is not an object ("true")
\*   "object": an object; has is the set of the verdict keys it holds
VerdictKeys == {"passed", "basic_score", "bonus_score", "total_score", "confidence"}

ScoreValues == {-10, 0, 60, 110}

ConfidenceValues == {50, 90}

ScoreResponse(kind, has, passed, basic, bonus, total, confidence, extra) ==
    [kind |-> kind, has |-> has, passed |-> passed, basic_score |-> basic,
     bonus_score |-> bonus, total_score |-> total, confidence |-> confidence,
     extra |-> extra]

\* keys besides the verdict's that the object of the answer may hold
ExtraKeySets == {{}, {"id"}, {"question", "source_a"}}


\* the values a key can take in an object that holds the key set has
ValuesIf(key, has, values) == IF key \in has THEN values ELSE {0}

ScoreResponses ==
    {ScoreResponse(k, {}, FALSE, 0, 0, 0, 0, {}) : k \in {"raise", "empty", "nojson", "scalar"}}
    \cup UNION {
           {ScoreResponse("object", has, p, ba, bo, to, c, extra) :
                extra \in ExtraKeySets,
                p \in IF "passed" \in has THEN BOOLEAN ELSE {FALSE},
                ba \in ValuesIf("basic_score", has, ScoreValues),
                bo \in ValuesIf("bonus_score", has, ScoreValues),
                to \in ValuesIf("total_score", has, ScoreValues),
                c \in ValuesIf("confidence", has, ConfidenceValues)}
           : has \in SUBSET VerdictKeys}

DefaultConfidence == 50    \* result.setdefault("confidence", 0.5)
FailConfidence == 0        \* "confidence": 0.0 of the except branches

\* the dict both except branches of filter_image return
FailResult ==
    [passed |-> FALSE, basic_score |-> 0, bonus_score |-> 0, total_score |-> 0,
     reason |-> "error", confidence |-> FailConfidence]

\* result.setdefault(...) for the six keys of filter_image
Defaults ==
    [passed |-> FALSE, reason |-> "default", confidence |-> DefaultConfidence,
     basic_score |-> 0, bonus_score |-> 0, total_score |-> 0]

\* the object json.loads returns for an "object" answer
ParsedObject(resp) ==
    [k \in resp.has \cup {"reason"} \cup resp.extra |->
        IF k = "reason" THEN "model"
        ELSE IF k \in resp.extra
             THEN IF k = "source_a" THEN {<<"caption", "model">>} ELSE "model"
        ELSE resp[k]]

\* GeminiClient.filter_image
FilterImageResult(resp) ==
    IF resp.kind = "object" THEN Merge(Defaults, ParsedObject(resp))
    ELSE FailResult

\* AsyncGeminiClient.filter_image_async: passed, reason and confidence are
\* filled in, the scores are not; the except branch returns no scores
FilterImageAsyncResult(resp) ==
    IF resp.kind = "object"
    THEN Merge([passed |-> FALSE, reason |-> "default", confidence |-> DefaultConfidence],
               ParsedObject(resp))
    ELSE [passed |-> FALSE, reason |-> "error", confidence |-> FailConfidence]

\* ---- pipeline instances
ClientHandle == "client"     \* the GeminiClient the engine hands to a pipeline

\* BasePipeline.__init__(gemini_client, pipeline_type), for a client that is
\* not None; "empty" is config.PIPELINE_CONFIG.get(key, {}) for a key not in it
BasePipelineInit(gemini_client, pipeline_type) ==
    [pipeline_type |-> pipeline_type,
     config |-> IF pipeline_type \in PipelineTypes THEN pipeline_type ELSE "empty",
     gemini_client |-> gemini_client]

\* QuestionPipeline(gemini_client): its module is not in the tree; one
\* instance per identifier with the shared algorithm
QuestionPipelineInit(gemini_client) == BasePipelineInit(gemini_client, "question")

\* <Pipeline>.__init__(gemini_client) of the class registered for the id;
\* CaptionPipeline calls super().__init__("caption", gemini_client)
PipelineInit(id, gemini_client) ==
    IF id = "question" THEN QuestionPipelineInit(gemini_client)
    ELSE IF id = "caption" THEN BasePipelineInit("caption", gemini_client)
    ELSE BasePipelineInit(gemini_client, id)

\* <Pipeline>.filter on an instance: the verdict of filter_image plus the
\* pipeline's keys; self.gemini_client.filter_image raises AttributeError
\* when the field holds no client
InstanceFilter(id, instance, resp) ==
    IF instance.gemini_client # ClientHandle
    THEN [raised |-> TRUE, result |-> [pipeline_type |-> id]]
    ELSE [raised |-> FALSE,
          result |-> Merge(FilterImageResult(resp),
                           [pipeline_type |-> id, pipeline_name |-> "name"])]

\* self.pipelines[pipeline_type].filter(image_input)
PipelineFilter(pipeline_type, resp) ==
    InstanceFilter(pipeline_type, PipelineInit(pipeline_type, ClientHandle), resp)

\* ---- routed items
\* Router._extract_image_input finds the payload in source_a, else in source_b;
\* the row of route_from_json keeps both nested dicts as they are.
RoutedItem(id, imageIn, pipeline_types) ==
    LET source_a == IF imageIn = "source_a"
                    THEN {<<"image_base64", Payload>>, <<"caption", "c">>}
                    ELSE {<<"caption", "c">>}
        source_b == IF imageIn = "source_b"
                    THEN {<<"question", "q">>, <<"image", Payload>>}
                    ELSE {<<"question", "q">>}
    IN [sample_index |-> "s", id |-> id, image_input |-> Payload, question |-> "q",
        pipeline_types |-> pipeline_types, source_a |-> source_a, source_b |-> source_b]

RoutedItems ==
    {RoutedItem("r1", where, pts) :
        where \in {"source_a", "source_b"},
        pts \in {<<>>, <<"object_counting">>, <<"caption", "object_position">>, <<"bogus">>}}

TaskFaults == {"none", "ctorfail"}

\* ImageFilterSystem._process_single_item (worker = FALSE) and
\* _process_single_item_worker (worker = TRUE), on the dicts themselves;
\* the timestamp is left out
ProcessSingleItemRecord(item, resp, worker, fault) ==
    LET routes == item.pipeline_types
        original_data == Without(item, {"image_input", "pipeline_types"})
        err(e) == Merge(original_data, [error |-> e])
    IN IF worker /\ fault = "ctorfail" THEN Without(err(ErrUnexpected), {"image_input"})
       ELSE IF Len(routes) = 0 THEN err(ErrNoPipeline)
       ELSE IF routes[1] \notin PipelineTypes THEN err(ErrInvalid)
       ELSE LET filter_result == PipelineFilter(routes[1], resp)
            IN IF filter_result.raised /\ worker
               THEN Without(err(ErrUnexpected), {"image_input"})
               ELSE IF filter_result.raised
               THEN \* the except branch of lines 379-390
                    Without(Merge(original_data,
                                  [pipeline_type |-> routes[1], passed |-> FALSE,
                                   reason |-> "error", confidence |-> FailConfidence,
                                   error |-> ErrLoop]),
                            {"image_input"})
               ELSE Without(Merge(Merge(original_data, filter_result.result),
                                  [pipeline_type |-> routes[1]]),
                            {"image_input"})

\* ---- task calls: one call of the task function or of a client
NoOutput == [fn |-> "none", rec |-> [id |-> "none"]]

InitTask ==
    /\ pc = "task"
    /\ records = <<>>
    /\ saveInterval = 0
    /\ useConcurrent = FALSE
    /\ mode = "thread"
    /\ tasks = <<>>
    /\ pending = <<>>
    /\ results = <<>>
    /\ completed = 0
    /\ calls = <<>>
    /\ swallowed = 0
    /\ oclog = {}
    /\ faults = 0
    /\ InitFile("absent")
    /\ IdleShard
    /\ IdlePool
    /\ IdleRouter
    /\ rawItem \in RoutedItems
    /\ modelText \in ScoreResponses
    /\ output = NoOutput

TaskDone(fn, rec) ==
    /\ pc' = "tasked"
    /\ output' = [fn |-> fn, rec |-> rec]
    /\ UNCHANGED <<rawItem, modelText>>
    /\ UNCHANGED <<records, saveInterval, useConcurrent, mode, tasks, pending, results,
                   completed, calls, swallowed, oclog, faults, initKind>>
    /\ UNCHANGED writerVars
    /\ UNCHANGED <<routerVars, shardVars, poolVars>>

\* _process_single_item(item) or _process_single_item_worker(item)
ProcessItemCall ==
    /\ pc = "task"
    /\ \E worker \in BOOLEAN : \E fault \in TaskFaults :
          TaskDone("process", ProcessSingleItemRecord(rawItem, modelText, worker, fault))

\* gemini_client.filter_image(image_input, criteria_description, question)
FilterImageCall ==
    /\ pc = "task"
    /\ TaskDone("filter_image", FilterImageResult(modelText))

\* async_client.filter_image_async(image_input, criteria_description, question)
FilterImageAsyncCall ==
    /\ pc = "task"
    /\ TaskDone("filter_image_async", FilterImageAsyncResult(modelText))

\* self.pipelines[id].filter(image_input), for any id of the registry; the
\* record shows the instance and what its filter returned
PipelineFilterCall ==
    /\ pc = "task"
    /\ \E id \in PipelineTypes :
          LET instance == PipelineInit(id, ClientHandle)
              r == InstanceFilter(id, instance, modelText)
          IN TaskDone("filter", [id |-> id, gemini_client |-> instance.gemini_client,
                                 config |-> instance.config, raised |-> r.raised,
                                 pipeline_type |-> r.result.pipeline_type])

NextTask ==
    \/ ProcessItemCall
    \/ FilterImageCall
    \/ FilterImageAsyncCall
    \/ PipelineFilterCall

SpecTask == InitTask /\ [][NextTask]_vars

\* ------------------------------------------------- response parsing, in detail
\* A model response is a sequence of tokens:
\*   "{" and "}"  braces
\*   "p"          a member with the key "passed"
\*   "k"          a member with another key
\*   "t"          commentary text
\*   "f"          a code fence ```
Tokens == {"{", "}", "p", "k", "t", "f"}

ResponseTexts == UNION {[1..n -> Tokens] : n \in 0..MaxTextLen}

RECURSIVE ObjEnd(_, _), ItemsEnd(_, _)
\* json.loads on an object that starts at i: the index of its closing brace,
\* 0 when no object starts there.  A member is "p", "k" or a nested object.
ObjEnd(t, i) ==
    IF i > Len(t) \/ t[i] # "{" THEN 0 ELSE ItemsEnd(t, i + 1)

ItemsEnd(t, j) ==
    IF j > Len(t) THEN 0
    ELSE IF t[j] = "}" THEN j
    ELSE IF t[j] \in {"p", "k"} THEN ItemsEnd(t, j + 1)
    ELSE IF t[j] = "{"
    THEN LET e == ObjEnd(t, j) IN IF e = 0 THEN 0 ELSE ItemsEnd(t, e + 1)
    ELSE 0

\* json.loads(text) succeeds: the text is one object and nothing else
JsonLoads(t) == Len(t) > 0 /\ ObjEnd(t, 1) = Len(t)

RECURSIVE DepthBefore(_, _)
\* the brace depth just before token j
DepthBefore(t, j) ==
    IF j <= 1 THEN 0
    ELSE DepthBefore(t, j - 1) + (IF t[j - 1] = "{" THEN 1
                                  ELSE IF t[j - 1] = "}" THEN -1 ELSE 0)

\* "passed" in result, for the object a text parses into
HasPassedKey(t) == \E j \in 1..Len(t) : t[j] = "p" /\ DepthBefore(t, j) = 1

\* response_text.find('{'), 0 for -1
FindBrace(t) ==
    IF \E i \in 1..Len(t) : t[i] = "{"
    THEN CHOOSE i \in 1..Len(t) : t[i] = "{" /\ \A k \in 1..(i - 1) : t[k] # "{"
    ELSE 0

\* re.search(r'```(?:json)?\s*(\{.*?\})\s*```'): the group of the leftmost
\* match, <<>> for no match
FencedBlock(t) ==
    LET opens == {i \in 1..Len(t) :
                     /\ t[i] = "f"
                     /\ i + 1 <= Len(t) /\ t[i + 1] = "{"
                     /\ \E j \in (i + 2)..(Len(t) - 1) : t[j] = "}" /\ t[j + 1] = "f"}
    IN IF opens = {} THEN <<>>
       ELSE LET i == CHOOSE x \in opens : \A y \in opens : x <= y
                j == CHOOSE x \in (i + 2)..(Len(t) - 1) :
                        /\ t[x] = "}" /\ t[x + 1] = "f"
                        /\ \A y \in (i + 2)..(x - 1) : ~(t[y] = "}" /\ t[y + 1] = "f")
            IN SubSeq(t, i + 1, j)

RECURSIVE BraceScan(_, _, _, _, _)
\* The loop "for i in range(start_idx, len(response_text))" from position i on
\* with the count so far: <<start_idx, i>> of the span it breaks on, <<0, 0>>
\* when it ends without a break.  needPassed is the extra test of the async
\* client: '"passed"' in response_text[start_idx:i+1].
BraceScan(t, start_idx, i, brace_count, needPassed) ==
    IF i > Len(t) THEN <<0, 0>>
    ELSE LET c == brace_count + (IF t[i] = "{" THEN 1 ELSE IF t[i] = "}" THEN -1 ELSE 0)
         IN IF t[i] = "}" /\ c = 0
               /\ (~needPassed \/ \E k \in start_idx..i : t[k] = "p")
            THEN <<start_idx, i>>
            ELSE BraceScan(t, start_idx, i + 1, c, needPassed)

\* the text handed to json.loads: the fenced block, else the span of the scan,
\* else the response as it is
SelectSpan(t, needPassed) ==
    IF FencedBlock(t) # <<>> THEN FencedBlock(t)
    ELSE IF FindBrace(t) = 0 THEN t
    ELSE LET s == BraceScan(t, FindBrace(t), FindBrace(t), 0, needPassed)
         IN IF s[1] = 0 THEN t ELSE SubSeq(t, s[1], s[2])

Parsed(raised, span) ==
    [raised |-> raised, span |-> span, hasPassed |-> ~raised /\ HasPassedKey(span)]

\* GeminiClient._extract_json_from_response
ExtractJsonFromResponse(t) ==
    IF Len(t) = 0 THEN Parsed(TRUE, <<>>)
    ELSE LET span == SelectSpan(t, FALSE)
         IN IF JsonLoads(span) THEN Parsed(FALSE, span) ELSE Parsed(TRUE, <<>>)

\* the parsing of AsyncGeminiClient.filter_image_async, lines 272-288
ParseAsync(t) ==
    LET span == SelectSpan(t, TRUE)
    IN IF JsonLoads(span) THEN Parsed(FALSE, span) ELSE Parsed(TRUE, <<>>)

\* ---- parse calls: one response parsed by one of the two clients
InitParse ==
    /\ pc = "parse"
    /\ records = <<>>
    /\ saveInterval = 0
    /\ useConcurrent = FALSE
    /\ mode = "thread"
    /\ tasks = <<>>
    /\ pending = <<>>
    /\ results = <<>>
    /\ completed = 0
    /\ calls = <<>>
    /\ swallowed = 0
    /\ oclog = {}
    /\ faults = 0
    /\ InitFile("absent")
    /\ IdleShard
    /\ IdlePool
    /\ IdleRouter
    /\ rawItem = Idle
    /\ modelText \in ResponseTexts
    /\ output = NoOutput

\* gemini_client._extract_json_from_response(response_text)
ExtractJsonCall ==
    /\ pc = "parse"
    /\ TaskDone("extract_json", ExtractJsonFromResponse(modelText))

\* the same response parsed by filter_image_async
ParseAsyncCall ==
    /\ pc = "parse"
    /\ TaskDone("parse_async", ParseAsync(modelText))

NextParse ==
    \/ ExtractJsonCall
    \/ ParseAsyncCall

SpecParse == InitParse /\ [][NextParse]_vars

\* ------------------------------------------------------- GPU sharding
\* lines 639-646: the slice route_results[start_idx:end_idx] of one gpu_id
ShardBoundsNoRemainder(gpu_id, num_gpus, total) ==
    LET tasks_per_gpu == total \div num_gpus
    IN <<gpu_id * tasks_per_gpu, (gpu_id + 1) * tasks_per_gpu>>

\* <<start_idx, end_idx>> of the slice of gpu_id
ShardBounds(gpu_id, num_gpus, total) ==
    LET tasks_per_gpu == total \div num_gpus
        start_idx == gpu_id * tasks_per_gpu
        end_idx == IF gpu_id = num_gpus - 1 THEN total
                   ELSE (gpu_id + 1) * tasks_per_gpu
    IN <<start_idx, end_idx>>

\* ImageFilterSystem.__init__, lines 242-247: the size of the pool
PoolSize(max_workers, num_gpus) ==
    LET workers_per_gpu == IF max_workers \div num_gpus >= 1
                           THEN max_workers \div num_gpus ELSE 1
    IN num_gpus * workers_per_gpu

InitShard ==
    /\ pc = "shard"
    /\ records = <<>>
    /\ saveInterval = 0
    /\ useConcurrent = TRUE
    /\ mode = "gpu"
    /\ tasks = <<>>
    /\ pending = <<>>
    /\ results = <<>>
    /\ completed = 0
    /\ calls = <<>>
    /\ swallowed = 0
    /\ oclog = {}
    /\ faults = 0
    /\ InitFile("absent")
    /\ IdleRouter
    /\ IdleTask
    /\ IdlePool
    /\ numGpus \in 1..MaxGpus
    /\ numTasks \in 0..MaxTasks
    /\ \E max_workers \in 1..MaxWorkers : numWorkers = PoolSize(max_workers, numGpus)
    /\ gpuNext = 0
    /\ submitted = <<>>
    /\ queue = <<>>
    /\ workerEnv = [w \in 1..numWorkers |-> {}]

ShardFrame ==
    /\ UNCHANGED <<pc, records, saveInterval, useConcurrent, mode, tasks, pending, results,
                   completed, calls, swallowed, oclog, faults, initKind>>
    /\ UNCHANGED writerVars
    /\ UNCHANGED <<routerVars, taskVars, poolVars>>

\* one iteration of "for gpu_id in range(self.num_gpus)", lines 640-654
SubmitShard ==
    /\ pc = "shard"
    /\ gpuNext < numGpus
    /\ LET b == ShardBounds(gpuNext, numGpus, numTasks)
           \* the futures of the slice, in order: <<task index from 1, gpu_id>>
           fs == [k \in 1..(b[2] - b[1]) |-> <<b[1] + k, gpuNext>>]
       IN /\ submitted' = submitted \o fs
          /\ queue' = queue \o fs
    /\ gpuNext' = gpuNext + 1
    /\ UNCHANGED <<numGpus, numTasks, numWorkers, workerEnv>>
    /\ ShardFrame

\* A process of the pool takes the next future and runs
\* _process_single_item_worker(item, gpu_id), which sets CUDA_VISIBLE_DEVICES
\* (lines 119-120) before anything else.
WorkerTake(w) ==
    /\ pc = "shard"
    /\ Len(queue) > 0
    /\ workerEnv' = [workerEnv EXCEPT ![w] = @ \cup {Head(queue)[2]}]
    /\ queue' = Tail(queue)
    /\ UNCHANGED <<numGpus, numTasks, numWorkers, gpuNext, submitted>>
    /\ ShardFrame

NextShard ==
    \/ SubmitShard
    \/ \E w \in 1..numWorkers : WorkerTake(w)

SpecShard == InitShard /\ [][NextShard]_vars

\* ------------------------------------------------- workers and collector
\* The functions a worker runs: _process_image_worker and
\* _process_single_item_worker in a process pool, self._process_single_item in
\* a thread pool, and self._process_single_item in the serial loop of a system
\* built with use_multiprocessing (the case that reaches _get_pipeline's own
\* GeminiClient): "image_worker", "item_worker", "item_thread", "item_serial".
\* the handles a task function constructs, in construction order
HandlesOf(fn) ==
    CASE fn = "image_worker" -> <<"router", "own">>   \* Router() then GeminiClient()
      [] fn = "item_worker" -> <<"own">>              \* GeminiClient()
      [] fn = "item_serial" -> <<"pipeline">>         \* _get_pipeline: GeminiClient()
      [] OTHER -> <<>>                                \* the shared self.gemini_client

InitPool ==
    /\ pc = "pool"
    /\ records = <<>>
    /\ saveInterval \in 1..MaxInterval
    /\ useConcurrent = TRUE
    /\ mode = "pool"
    /\ tasks = <<>>
    /\ pending = <<>>
    /\ results = <<>>
    /\ completed = 0
    /\ calls = <<>>
    /\ swallowed = 0
    /\ oclog = {}
    /\ faults = 0
    /\ InitFile("absent")
    /\ IdleRouter
    /\ IdleTask
    /\ IdleShard
    /\ poolFn \in {"image_worker", "item_worker", "item_thread", "item_serial"}
    /\ todo \in 1..MaxPoolTasks
    /\ wk = [w \in 1..PoolWorkers |-> [pc |-> "idle", open |-> {}, leaked |-> {}, reg |-> 0]]
    /\ counter = 0
    /\ names = <<>>
    /\ doneQ = 0
    /\ collector = [pc |-> "wait", completed |-> 0, writing |-> <<>>]

PoolFrame ==
    /\ UNCHANGED <<pc, records, saveInterval, useConcurrent, mode, tasks, pending, results,
                   completed, calls, swallowed, oclog, faults, initKind>>
    /\ UNCHANGED writerVars
    /\ UNCHANGED <<routerVars, taskVars, shardVars>>

\* a worker takes its next task; the serial loop is one worker
WorkerStart(w) ==
    /\ pc = "pool"
    /\ wk[w].pc = "idle"
    /\ todo > 0
    /\ poolFn = "item_serial" => w = 1
    /\ todo' = todo - 1
    /\ wk' = [wk EXCEPT ![w] = [pc |-> IF poolFn = "item_thread" THEN "load" ELSE "construct",
                                open |-> {}, leaked |-> wk[w].open, reg |-> 0]]
    /\ UNCHANGED <<poolFn, counter, names, doneQ, collector>>
    /\ PoolFrame

\* Router() / GeminiClient() at the start of the task: the first n succeed, and
\* a constructor that raises sends the function to its except branch
WorkerConstruct(w) ==
    /\ pc = "pool"
    /\ wk[w].pc = "construct"
    /\ \E n \in 0..Len(HandlesOf(poolFn)) :
         wk' = [wk EXCEPT ![w].open = {HandlesOf(poolFn)[k] : k \in 1..n},
                          ![w].pc = IF n = Len(HandlesOf(poolFn)) THEN "run"
                                    ELSE "finally"]
    /\ UNCHANGED <<poolFn, todo, counter, names, doneQ, collector>>
    /\ PoolFrame

\* _save_debug_image, "self.debug_image_counter += 1": the read
CounterLoad(w) ==
    /\ pc = "pool"
    /\ wk[w].pc = "load"
    /\ wk' = [wk EXCEPT ![w].reg = counter, ![w].pc = "store"]
    /\ UNCHANGED <<poolFn, todo, counter, names, doneQ, collector>>
    /\ PoolFrame

\* "self.debug_image_counter += 1": the write
CounterStore(w) ==
    /\ pc = "pool"
    /\ wk[w].pc = "store"
    /\ counter' = wk[w].reg + 1
    /\ wk' = [wk EXCEPT ![w].pc = "name"]
    /\ UNCHANGED <<poolFn, todo, names, doneQ, collector>>
    /\ PoolFrame

\* filename = f"{self.debug_image_counter:04d}_{timestamp}": reads the field again
FileName(w) ==
    /\ pc = "pool"
    /\ wk[w].pc = "name"
    /\ names' = Append(names, counter)
    /\ wk' = [wk EXCEPT ![w].pc = "run"]
    /\ UNCHANGED <<poolFn, todo, counter, doneQ, collector>>
    /\ PoolFrame

\* routing and filtering: a record, an error record or an exception; each of
\* them leads to the finally block
WorkerRun(w) ==
    /\ pc = "pool"
    /\ wk[w].pc = "run"
    /\ wk' = [wk EXCEPT ![w].pc = "finally"]
    /\ UNCHANGED <<poolFn, todo, counter, names, doneQ, collector>>
    /\ PoolFrame

\* the finally block: gemini_client.close() in the two worker functions, no
\* close() in _process_single_item
WorkerFinally(w) ==
    /\ pc = "pool"
    /\ wk[w].pc = "finally"
    /\ wk' = [wk EXCEPT ![w].open = IF poolFn \in {"image_worker", "item_worker"}
                                     THEN @ \ {"own"} ELSE @,
                          ![w].pc = "return"]
    /\ UNCHANGED <<poolFn, todo, counter, names, doneQ, collector>>
    /\ PoolFrame

\* The function returns and its locals are released. A handle nothing closed is
\* closed by GeminiClient.__del__ when the runtime finalises it, which the
\* language does not tie to the release of the last reference: it has happened
\* by the next task or it has not.
WorkerReturn(w) ==
    /\ pc = "pool"
    /\ wk[w].pc = "return"
    /\ \E finalised \in BOOLEAN :
         wk' = [wk EXCEPT ![w].open = IF finalised THEN {} ELSE @, ![w].pc = "idle"]
    /\ IF poolFn = "item_serial"
       THEN /\ collector' = [collector EXCEPT !.completed = @ + 1]
            /\ UNCHANGED doneQ
       ELSE /\ doneQ' = doneQ + 1
            /\ UNCHANGED collector
    /\ UNCHANGED <<poolFn, todo, counter, names>>
    /\ PoolFrame

\* the collecting loop is at "for future in as_completed(...)"
MayTakeDuringAppend(c) == TRUE

MayTake(c) == c.pc = "wait"

\* lines 670-689: one completed future; at a checkpoint _append_results begins
CollectorTake ==
    /\ pc = "pool"
    /\ poolFn # "item_serial"
    /\ MayTake(collector)
    /\ doneQ > 0
    /\ doneQ' = doneQ - 1
    /\ LET n == collector.completed + 1
       IN collector' = IF n % saveInterval = 0
                       THEN [pc |-> "append", completed |-> n,
                             writing |-> Append(collector.writing, "collector")]
                       ELSE [collector EXCEPT !.completed = n]
    /\ UNCHANGED <<poolFn, todo, wk, counter, names>>
    /\ PoolFrame

\* _append_results returns
CollectorAppended ==
    /\ pc = "pool"
    /\ collector.pc = "append"
    /\ collector' = [collector EXCEPT !.pc = "wait", !.writing = Tail(@)]
    /\ UNCHANGED <<poolFn, todo, wk, counter, names, doneQ>>
    /\ PoolFrame

NextPool ==
    \/ \E w \in 1..PoolWorkers : WorkerStart(w)
    \/ \E w \in 1..PoolWorkers : WorkerConstruct(w)
    \/ \E w \in 1..PoolWorkers : CounterLoad(w)
    \/ \E w \in 1..PoolWorkers : CounterStore(w)
    \/ \E w \in 1..PoolWorkers : FileName(w)
    \/ \E w \in 1..PoolWorkers : WorkerRun(w)
    \/ \E w \in 1..PoolWorkers : WorkerFinally(w)
    \/ \E w \in 1..PoolWorkers : WorkerReturn(w)
    \/ CollectorTake
    \/ CollectorAppended

SpecPool == InitPool /\ [][NextPool]_vars

\* ===================================================================== claims
\* indexes of the results that carry the id
ResultsOf(id) == {k \in 1..Len(results) : results[k].id = id}

\* indexes of the filter calls made for the id
CallsOf(id) == {k \in 1..Len(calls) : calls[k][1] = id}

InSeq(x, s) == \E k \in 1..Len(s) : s[k] = x

\* C1: when a run with a checkpoint interval N > 0 finishes, the output file
\* holds every record of the result list, the records completed after the
\* last multiple of N included, also when the file existed before the run.
C1_FileHoldsEveryRecord ==
    (pc = "done" /\ saveInterval > 0) =>
        /\ fileExists
        /\ ParseArray(file).ok
        /\ \A k \in 1..Len(results) : InSeq(results[k], ParseArray(file).items)

\* C2: for N submitted tasks the returned result list holds exactly N records,
\* one per task, also when a checkpoint write fails.
C2_ExactlyOneRecordPerTask ==
    pc = "done" =>
        /\ Len(results) = Len(tasks)
        /\ \A t \in 1..Len(tasks) : Cardinality(ResultsOf(tasks[t].id)) = 1

\* C3: a task whose model-client call raises yields exactly one record, which
\* has an error field and the id of the task.
C3_ModelFailureYieldsErrorRecord ==
    pc = "done" =>
        \A t \in 1..Len(tasks) :
            (<<tasks[t].id, "modelfail">> \in oclog /\ Len(tasks[t].pipeline_types) >= 1) =>
                /\ Cardinality(ResultsOf(tasks[t].id)) = 1
                /\ \A k \in ResultsOf(tasks[t].id) : results[k].error # NoError

\* C4: no exception raised while one record is handled (route lookup
\* included) propagates out of process_json.
C4_NoTaskExceptionEscapes == pc # "aborted"

\* C5: from an absent file, _append_results(B1) then _append_results(B2)
\* leave a file that parses as the JSON array B1 ++ B2, for batches of any
\* length, the empty batch included.
C5_FreshAppendsConcatenate ==
    (initKind = "absent" /\ nAppends = 2) =>
        /\ ParseArray(file).ok
        /\ ParseArray(file).items = expect

\* C6: appending a non-empty batch to an existing file that holds a
\* well-formed JSON array yields that array extended by the batch, whatever
\* precedes the closing bracket.
C6_AppendToWellFormedFile ==
    (initKind \in WellFormedKinds /\ nAppends = 1 /\ Len(lastBatch) > 0) =>
        /\ ParseArray(file).ok
        /\ ParseArray(file).items = expect

\* C7: after every completed _append_results call of a run the output file is
\* one syntactically valid JSON array.
C7_FileValidAfterEveryAppend ==
    (nAppends > 0 /\ ~lastRaised) => ParseArray(file).ok

\* C8: when the in-place append and the fallback both fail, the error halts
\* the run: the collection loop does not catch it and adds no record for it.
C8_WriterFailureHaltsRun ==
    /\ lastRaised => pc = "aborted"
    /\ swallowed = 0

\* C9: every input record whose routing decision is empty, a record without a
\* question included, yields exactly one record whose error says that no
\* pipeline matched, and filter is not called for it.
EmptyDecision(i) ==
    \/ records[i].q = "missing"
    \/ \E t \in 1..Len(tasks) :
          tasks[t].id = records[i].id /\ Len(tasks[t].pipeline_types) = 0

C9_EmptyDecisionYieldsErrorRecord ==
    pc = "done" =>
        \A i \in 1..Len(records) :
            EmptyDecision(i) =>
                /\ Cardinality(ResultsOf(records[i].id)) = 1
                /\ \A k \in ResultsOf(records[i].id) : results[k].error = ErrNoPipeline
                /\ CallsOf(records[i].id) = {}

Has(rec, key) == key \in DOMAIN rec

\* the nested dict under key holds the payload as a value
NestedPayload(rec, key) == Has(rec, key) /\ \E pair \in rec[key] : pair[2] = Payload

\* C11: the raw image payload of an input record appears nowhere in its output
\* record, top-level or nested in a pass-through field, on the success path
\* and on every error path; every other pass-through field is carried over.
C11_NoImagePayloadInOutput ==
    output.fn = "process" =>
        /\ ~Has(output.rec, "image_input")
        /\ ~NestedPayload(output.rec, "source_a")
        /\ ~NestedPayload(output.rec, "source_b")
        /\ \A k \in {"sample_index", "id", "question"} :
              Has(output.rec, k) /\ output.rec[k] = rawItem[k]

\* the call returned a scoring result: a verdict with its scores
ScoringResult ==
    /\ output.fn \in {"process", "filter_image", "filter_image_async"}
    /\ Has(output.rec, "passed")
    /\ Has(output.rec, "total_score")
    /\ Has(output.rec, "basic_score")
    /\ Has(output.rec, "bonus_score")

\* C16: every scoring result satisfies: passed == false implies
\* total_score == 0, basic_score == 0 and bonus_score == 0.
C16_FailedMeansZeroScore ==
    (ScoringResult /\ ~output.rec.passed) =>
        /\ output.rec.total_score = 0
        /\ output.rec.basic_score = 0
        /\ output.rec.bonus_score = 0

\* C17: every scoring result satisfies 0 <= total_score <= 1,
\* 0 <= basic_score <= 0.6, 0 <= bonus_score <= 0.4 and
\* total_score == basic_score + bonus_score.
C17_ScoresInRangeAndComposed ==
    ScoringResult =>
        /\ 0 <= output.rec.total_score /\ output.rec.total_score <= 100
        /\ 0 <= output.rec.basic_score /\ output.rec.basic_score <= 60
        /\ 0 <= output.rec.bonus_score /\ output.rec.bonus_score <= 40
        /\ output.rec.total_score = output.rec.basic_score + output.rec.bonus_score

\* C18: when the model response cannot be parsed into a verdict object,
\* filter_image does not raise and returns passed = false, all scores 0 and
\* confidence = 0.5.
C18_UnparsedGivesConservativeFail ==
    (output.fn = "filter_image" /\ modelText.kind \in {"empty", "nojson", "scalar"}) =>
        /\ ~output.rec.passed
        /\ output.rec.basic_score = 0
        /\ output.rec.bonus_score = 0
        /\ output.rec.total_score = 0
        /\ output.rec.confidence = 50

\* ---- router claims (SpecRouter)
\* the pipelines with the highest non-zero keyword/pattern score
TopSet(phrases) ==
    {p \in PipelineTypes : Score(p, phrases) > 0
                           /\ \A p2 \in PipelineTypes : Score(p2, phrases) <= Score(p, phrases)}

SeqToSet(s) == {s[k] : k \in 1..Len(s)}

\* a question value that is a non-empty string
Usable(q) == q.kind = "text" /\ q.phrases # {}

\* the metadata holds a usable question under "question"
HasTopQuestion == metadata.given /\ Usable(metadata.question)

\* the metadata holds a usable question under source_b.question
HasSourceBQuestion ==
    metadata.given /\ metadata.source_b.kind = "map" /\ Usable(metadata.source_b.question)

\* the metadata has no "question" key and a usable question in source_b
OnlySourceBQuestion ==
    metadata.given /\ metadata.question.kind = "absent" /\ HasSourceBQuestion

\* the phrases of the question a call of route is given, when it is given one
RoutePhrases ==
    IF HasTopQuestion THEN metadata.question.phrases
    ELSE metadata.source_b.question.phrases

RouteGivenQuestion == HasTopQuestion \/ OnlySourceBQuestion

\* C12: when exactly one pipeline attains the maximum non-zero keyword/pattern
\* score for the question, route returns exactly that pipeline and makes no
\* model-client call; in every other case it makes at most one model-client call.
C12_UniqueKeywordMatchSkipsModel ==
    (routed.fn = "route") =>
        /\ routed.llmCalls <= 1
        /\ (RouteGivenQuestion /\ Cardinality(TopSet(RoutePhrases)) = 1) =>
              /\ ~routed.raised
              /\ Len(routed.decision) = 1
              /\ SeqToSet(routed.decision) = TopSet(RoutePhrases)
              /\ routed.llmCalls = 0

\* route was called on a question with one top pipeline while the model was
\* enabled and ready to answer another pipeline with high confidence
C12_Witness ==
    /\ routed.fn = "route"
    /\ HasTopQuestion /\ TopSet(RoutePhrases) = {"object_counting"}
    /\ useLlm
    /\ response.kind = "object" /\ response.pipeline_type = "object_position"
    /\ response.confKind = "number" /\ response.conf = 90
    /\ routed.decision = <<"object_counting">>

\* the semantic stage gives no accepted answer: it is disabled, the client
\* raises, the response cannot be parsed, the confidence is below 0.6 or the
\* id is unknown
NoAcceptedAnswer ==
    \/ ~useLlm
    \/ response.kind \in {"raise", "nojson", "badjson"}
    \/ response.confKind = "number" /\ response.conf < 60
    \/ response.pipeline_type \notin PipelineTypes

\* C13: whenever the semantic stage produces no accepted answer, route returns
\* exactly the stage-1 candidate set (every tied maximum-score id, or nothing)
\* and does not raise.
C13_FallbackToKeywordCandidates ==
    (routed.fn = "route" /\ RouteGivenQuestion /\ NoAcceptedAnswer) =>
        /\ ~routed.raised
        /\ SeqToSet(routed.decision) = TopSet(RoutePhrases)
        /\ Len(routed.decision) = Cardinality(TopSet(RoutePhrases))

\* route fell back to three tied pipelines after the model, enabled, answered
\* with a confidence below the threshold
C13_Witness ==
    /\ routed.fn = "route" /\ RouteGivenQuestion
    /\ useLlm /\ response.kind = "object" /\ response.pipeline_type = "object_counting"
    /\ response.confKind = "number" /\ response.conf = 59
    /\ Cardinality(TopSet(RoutePhrases)) = 3
    /\ Len(routed.decision) = 3
    /\ routed.llmCalls = 1

\* the call was given no usable question: missing, null, empty or malformed
NoUsableQuestion ==
    CASE routed.fn = "match" -> ~Usable(metadata.question)
      [] routed.fn = "route" -> ~HasTopQuestion /\ ~HasSourceBQuestion
      [] OTHER -> ~HasSourceBQuestion

\* C14: route, _match_pipeline_by_question and route_from_json return an empty
\* decision and raise nothing for a question that is missing, null, empty or
\* malformed (not a string, or in a source_b that is not a mapping).
C14_MalformedQuestionGivesEmptyDecision ==
    (routed.fn # "none" /\ NoUsableQuestion) =>
        /\ ~routed.raised
        /\ routed.decision = <<>>
        /\ \A k \in 1..Len(routed.rows) : routed.rows[k] = <<>>

\* C15: route takes the question from metadata["question"] and, when the
\* metadata gives no question there, from metadata["source_b"]["question"];
\* its decision is that of matching that question directly.
C15_RouteReadsSourceB ==
    (routed.fn = "route") =>
        /\ HasTopQuestion =>
              routed.decision = MatchQuestion(metadata.question, useLlm, response).decision
        /\ (~HasTopQuestion /\ HasSourceBQuestion
            /\ metadata.question.kind \in {"absent", "null", "text"}) =>
              routed.decision =
                  MatchQuestion(metadata.source_b.question, useLlm, response).decision

\* C19: with a checkpoint interval N > 0 the engine has called the writer
\* once for every N-th completion, whether that completion succeeded or
\* failed; with N = 0 it never calls the writer during the run and the one
\* end-of-run write holds all results.
WriterCalls == nAppends + swallowed

C19_CheckpointEveryNth ==
    /\ (pc \in {"running", "done"} /\ saveInterval > 0) =>
           WriterCalls = completed \div saveInterval
    /\ (pc \in {"running", "done"} /\ saveInterval = 0) => WriterCalls = 0
    /\ (pc = "done" /\ saveInterval = 0) => ParseArray(file).items = results

\* C20: when the file is a parseable array of the persisted records and the
\* in-place append fails at any step, the fallback leaves a parseable array
\* that holds the persisted records followed by the new batch.
C20_FallbackKeepsPersisted ==
    [][(/\ fileExists
        /\ ParseArray(file).ok
        /\ ParseArray(file).items = expect
        /\ lastPath' = "fallback"
        /\ ~lastRaised'
        /\ nAppends' = nAppends + 1)
       => (ParseArray(file').ok /\ ParseArray(file').items = expect')]_vars

\* ---- more router claims (SpecRouter)
\* the model's answer names a registry id with a reported confidence >= 0.6
AnswerAcceptable ==
    /\ response.kind = "object"
    /\ response.pipeline_type \in PipelineTypes
    /\ response.confKind = "number"
    /\ response.conf >= 60

\* route was given a question the keyword stage does not settle
SemanticStageNeeded == RouteGivenQuestion /\ Cardinality(TopSet(RoutePhrases)) # 1

\* C21: in the semantic stage the model's answer is accepted, and route then
\* returns exactly that single id, only if the reported confidence is >= 0.6
\* and the id is in the registry; an answer with a missing confidence, a
\* confidence below 0.6 or an unknown id is never returned.
C21_AcceptOnlyConfidentKnownId ==
    (routed.fn = "route" /\ SemanticStageNeeded) =>
        /\ (useLlm /\ AnswerAcceptable) => routed.decision = <<response.pipeline_type>>
        /\ Len(routed.decision) = 1 =>
              /\ useLlm
              /\ AnswerAcceptable
              /\ routed.decision = <<response.pipeline_type>>
        /\ ~(useLlm /\ AnswerAcceptable) =>
              SeqToSet(routed.decision) = TopSet(RoutePhrases)

\* the model answered, at exactly the threshold, an id outside a keyword tie
C21_Witness ==
    /\ routed.fn = "route" /\ SemanticStageNeeded /\ useLlm
    /\ TopSet(RoutePhrases) = {"caption", "place_recognition"}
    /\ response.kind = "object" /\ response.pipeline_type = "object_counting"
    /\ response.confKind = "number" /\ response.conf = 60
    /\ routed.decision = <<"object_counting">>

\* ---- response parsing claims (SpecParse)
\* the brace-balanced object spans of the response that hold "passed"
PassedSpans(t) ==
    {sp \in (1..Len(t)) \X (1..Len(t)) :
        /\ ObjEnd(t, sp[1]) = sp[2]
        /\ \E k \in sp[1]..sp[2] : t[k] = "p"}

SmallestPassedSpan(t) ==
    LET sp == CHOOSE x \in PassedSpans(t) :
                  \A y \in PassedSpans(t) : x[2] - x[1] <= y[2] - y[1]
    IN SubSeq(t, sp[1], sp[2])

\* no fence; the first "{" opens an object without "passed"; one verdict
\* object with the one "passed" key follows it
UnrelatedObjectFirst(t) ==
    /\ \A k \in 1..Len(t) : t[k] # "f"
    /\ Cardinality({k \in 1..Len(t) : t[k] = "p"}) = 1
    /\ FindBrace(t) # 0
    /\ ObjEnd(t, FindBrace(t)) # 0
    /\ \A k \in FindBrace(t)..ObjEnd(t, FindBrace(t)) : t[k] # "p"
    /\ PassedSpans(t) # {}

\* C22: when the response has no fenced block and an unrelated brace-balanced
\* object without a "passed" key comes before the verdict object, parsing
\* skips the earlier object and returns the verdict object, the smallest
\* brace-balanced span that holds the "passed" key.
C22_ParsingSkipsUnrelatedObject ==
    (output.fn \in {"extract_json", "parse_async"} /\ UnrelatedObjectFirst(modelText)) =>
        /\ ~output.rec.raised
        /\ output.rec.span = SmallestPassedSpan(modelText)

\* ---- pipeline claims (SpecTask)
\* C23: for every identifier of the registry, the pipeline instance the engine
\* uses holds the model-client handle it was given, reads the criteria and
\* question of its own registry entry, and a successful call returns a result
\* tagged with that identifier; all nine identifiers alike.
C23_PipelinesShareAlgorithm ==
    output.fn = "filter" =>
        /\ output.rec.gemini_client = ClientHandle
        /\ output.rec.config = output.rec.id
        /\ ~output.rec.raised
        /\ output.rec.pipeline_type = output.rec.id

\* ---- sharding claims (SpecShard)
\* the futures submitted with the gpu_id
FuturesOf(gpu_id) == {k \in 1..Len(submitted) : submitted[k][2] = gpu_id}

\* C24: in GPU-sharded process mode the device identifier bound to a worker
\* process never changes during its lifetime: every task one process executes
\* carries the same gpu_id.
C24_WorkerKeepsOneDevice ==
    pc = "shard" => \A w \in 1..numWorkers : Cardinality(workerEnv[w]) <= 1

C27_SingleWriter ==
    pc = "pool" =>
        /\ Len(collector.writing) <= 1
        /\ \A k \in 1..Len(collector.writing) : collector.writing[k] = "collector"
        /\ collector.pc = "append" <=> Len(collector.writing) = 1

\* an append in progress while a worker is in the middle of a task and another
\* completed future is waiting
C27_Witness ==
    /\ pc = "pool"
    /\ Len(collector.writing) = 1
    /\ doneQ > 0
    /\ \E w \in 1..PoolWorkers : wk[w].pc \in {"run", "finally", "name"}

\* C28: concurrent filter invocations by worker threads through the shared
\* client share no mutable state: no interleaving loses an update of a shared
\* field or makes two invocations derive the same value from it.
C28_NoSharedMutableState ==
    (pc = "pool" /\ poolFn = "item_thread") =>
        /\ counter = Len(names) + Cardinality({w \in 1..PoolWorkers : wk[w].pc = "name"})
        /\ \A i, j \in 1..Len(names) : i # j => names[i] # names[j]

\* ---- frame of the merge (SpecTask)
PassThroughFields == {"id", "sample_index", "question", "source_a", "source_b"}

\* C29: for every task and every model response each pass-through field of the
\* input record (id, sample_index, question, source_a, source_b) has the same
\* value in the output record as in the input record: keys of the model's
\* verdict never overwrite a pass-through field.
C29_PassThroughFieldsKept ==
    (pc = "tasked" /\ output.fn = "process") =>
        \A k \in PassThroughFields \cap DOMAIN rawItem :
            /\ k \in DOMAIN output.rec
            /\ output.rec[k] = rawItem[k]

\* ---- checkpoint batches (Spec)
RECURSIVE FirstPerId(_, _)
\* the records of rs, keeping for every task id the first one: the record of
\* the task's completion, in completion order
FirstPerId(rs, seen) ==
    IF Len(rs) = 0 THEN <<>>
    ELSE IF Head(rs).id \in seen THEN FirstPerId(Tail(rs), seen)
    ELSE <<Head(rs)>> \o FirstPerId(Tail(rs), seen \cup {Head(rs).id})

\* C30: with a checkpoint interval N > 0 the batches handed to the writer are
\* consecutive and disjoint: the k-th call of the writer is handed exactly the
\* records of completions (k-1)*N+1 .. k*N, also when a future raised at a
\* checkpoint boundary or an earlier append failed.
C30_BatchesConsecutiveAndDisjoint ==
    [][(/\ pc = "running"
        /\ saveInterval > 0
        /\ WriterCalls' = WriterCalls + 1)
       => lastBatch' = SubSeq(FirstPerId(results', {}),
                              (WriterCalls' - 1) * saveInterval + 1,
                              WriterCalls' * saveInterval)]_vars

====
